---- MODULE Spec2Model ----
(***************************************************************************)
(* The cluster synchronisation and lifecycle protocol of                   *)
(* python/graphstorm/sagemaker/sagemaker_train.py: run_train on the master *)
(* (rank 0) and on every worker (rank >= 1), the training thread started   *)
(* by launch_train_task, and the keep-alive thread.                        *)
(*                                                                         *)
(* barrier_master, barrier, keep_alive, terminate_workers and              *)
(* wait_for_exit live in sagemaker/utils.py; they are modelled from the    *)
(* protocol description of spec.md (sections 4.2, 4.3, 4.5).               *)
(***************************************************************************)
EXTENDS Integers, Sequences, FiniteSets, TLC

\* ------------------------------------------------------------- bounds
\* Largest number of hosts in train_env['hosts'].
MaxWorldSize == 3
\* Largest number of heartbeat rounds the keep-alive thread performs.
MaxRounds == 2

\* Largest number of worker connections that break in mid-job.
MaxDrops == 1

\* ---------------------------------------------------------- constants
\* for _ in range(30)
MaxAttempts == 30
\* [None] * world_size: an empty slot of client_list
None == 0
\* Exit statuses of the child process: success, failure, killed by a signal.
ExitCodes == {0, 1, -9}
\* What subprocess.check_call can do: return (status 0), raise
\* CalledProcessError (status K # 0), or raise another Exception.
ChildOutcomes ==
    [kind : {"exit"}, code : ExitCodes] \cup {[kind |-> "fault", code |-> 0]}
NoChild == [kind |-> "none", code |-> 0]

VARIABLES
    world_size,         \* len(hosts)
    model_artifact_s3,  \* args.model_artifact_s3 is set
    dropped,            \* the connection of worker w broke in mid-job
    \* ---- master, main thread
    mpc,                \* position of the master in run_train
    i,                  \* index of the master's current loop over ranks
    phase,              \* sub-step inside barrier_master / terminate_workers
    listening,          \* the master's listening socket: "none", "open", "closed"
    backlog,            \* connections completed by the kernel, not yet accepted
    client_list,        \* rank slot -> accepted connection (the worker behind it)
    mconn,              \* master side of the connection to worker w
    sent,               \* messages the master has written to worker w
    mrcvd,              \* number of messages of wsent[w] the master has read
    err_code,           \* err_code of the master
    mexit,              \* exit status of the master process
    launched,           \* how launch_train_task ended: "none", "started", or the exception
    \* ---- master, training thread
    tpc,                \* "none", "run", "done"
    state_q,            \* queue.Queue()
    child,              \* what the child process did
    \* ---- master, keep-alive thread
    task_end,           \* Event
    kapc,               \* "none", "test", "send", "done"
    rank,               \* loop index of the keep-alive thread
    rounds,             \* heartbeat rounds completed
    \* ---- workers
    wpc,                \* position of worker w in run_train
    attempts,           \* loop counter of the connect loop
    wsock,              \* worker socket: "none", "open", "closed"
    connected,          \* sock.connect succeeded
    wsent,              \* messages worker w has written to the master
    rcvd,               \* number of messages of sent[w] worker w has read
    werr,               \* err_code of worker w
    wexit,              \* exit status of worker w
    \* ---- artifact I/O
    downloaded,         \* nodes that finished their downloads
    uploaded            \* nodes that uploaded model artifacts

mvars == <<mpc, i, phase, listening, backlog, client_list, mconn, sent, mrcvd,
           err_code, mexit, launched>>
tvars == <<tpc, state_q, child>>
kvars == <<task_end, kapc, rank, rounds>>
wvars == <<wpc, attempts, wsock, connected, wsent, rcvd, werr, wexit>>
avars == <<downloaded, uploaded>>
cvars == <<world_size, model_artifact_s3, dropped>>
vars == <<cvars, mvars, tvars, kvars, wvars, avars>>

\* host_rank of the workers: 1 .. world_size-1
Workers == 1 .. (world_size - 1)

\* ------------------------------------------------- run_train, in order
\* Variants of the master's program order used to test the ordering claims:
\* the barrier call left out, the wait for the training thread and its result
\* left out, the join of the keep-alive thread left out.
MasterStepsNoBarrier ==
    << "listen", "accept", "download", "ka_start", "launch",
       "join", "get", "set_end", "ka_join", "terminate_workers", "close",
       "exit_check", "upload", "exited" >>

MasterStepsNoWait ==
    << "listen", "accept", "download", "barrier_master", "ka_start", "launch",
       "set_end", "ka_join", "terminate_workers", "close",
       "exit_check", "upload", "exited" >>

MasterStepsNoKeepAliveJoin ==
    << "listen", "accept", "download", "barrier_master", "ka_start", "launch",
       "join", "get", "set_end", "terminate_workers", "close",
       "exit_check", "upload", "exited" >>

\* Variant: the keep-alive thread started before the barrier.
MasterStepsKeepAliveFirst ==
    << "listen", "accept", "download", "ka_start", "barrier_master", "launch",
       "join", "get", "set_end", "ka_join", "terminate_workers", "close",
       "exit_check", "upload", "exited" >>

\* The statements of the master branch of run_train, in program order.
MasterSteps ==
    << "listen", "accept", "download", "barrier_master", "ka_start", "launch",
       "join", "get", "set_end", "ka_join", "terminate_workers", "close",
       "exit_check", "upload", "exited" >>

\* Variant: the worker's downloads moved behind its barrier.
WorkerStepsDownloadLate ==
    << "socket", "connect", "barrier", "download", "wait_for_exit", "close",
       "exit_check", "upload", "exited" >>

\* The statements of the worker branch of run_train, in program order.
WorkerSteps ==
    << "socket", "connect", "download", "barrier", "wait_for_exit", "close",
       "exit_check", "upload", "exited" >>

After(steps, pc) ==
    LET k == CHOOSE j \in 1 .. Len(steps) : steps[j] = pc
    IN  steps[k + 1]

MNext(pc) == After(MasterSteps, pc)
WNext(pc) == After(WorkerSteps, pc)

\* ------------------------------------------------------------ helpers
\* launch_train_task before the thread is started: the task type is looked
\* up first, then os.environ['LD_LIBRARY_PATH'] is read.
LaunchOutcome(task_ok, env_ok) ==
    IF ~task_ok THEN "RuntimeError"
    ELSE IF ~env_ok THEN "KeyError"
    ELSE "started"

\* Variant: the handler written for another exception type.
CaughtValueError(exc) == exc = "ValueError"

\* except RuntimeError as e:
Caught(exc) == exc = "RuntimeError"

\* run(): what the training thread puts on state_q
RunResult(o) ==
    IF o.kind = "exit"
    THEN IF o.code = 0 THEN 0 ELSE o.code
    ELSE -1

\* Variant: a run() without the generic except clause delivers nothing on a fault.
RunPutsNoFault(o) == IF o.kind = "fault" THEN << >> ELSE << RunResult(o) >>

\* The puts of run(), in order: one on each of its three paths.
RunPuts(o) == << RunResult(o) >>

\* Variants of the exit test: err_code > 0, and the test inverted.
ExitStatusPositive(e) == IF e > 0 THEN -1 ELSE 0

ExitStatusInverted(e) == IF e = 0 THEN -1 ELSE 0

\* The statement that follows the try block: task_end.set()
AfterTry == "set_end"

\* if err_code != 0: sys.exit(-1)
ExitStatus(e) == IF e # 0 THEN -1 ELSE 0

\* Variant: the upload test without the configured destination.
ShouldUploadIfExists(s3, exists) == exists

\* if gs_model_artifact_s3 and os.path.exists(save_model_path):
ShouldUpload(s3, exists) == s3 /\ exists

\* The master process is gone: the kernel has closed whatever it left open.
MasterGone == mpc \in {"exited", "crashed"}

\* ---------------------------------------------------------------- Init
Init ==
    /\ world_size \in 1 .. MaxWorldSize
    /\ model_artifact_s3 \in BOOLEAN
    /\ dropped = [w \in Workers |-> FALSE]
    /\ mpc = "listen"
    /\ i = 1
    /\ phase = 1
    /\ listening = "none"
    /\ backlog = << >>
    /\ client_list = [k \in 0 .. (world_size - 1) |-> None]
    /\ mconn = [w \in Workers |-> "none"]
    /\ sent = [w \in Workers |-> << >>]
    /\ mrcvd = [w \in Workers |-> 0]
    /\ err_code = 0
    /\ mexit = 0
    /\ launched = "none"
    /\ tpc = "none"
    /\ state_q = << >>
    /\ child = NoChild
    /\ task_end = FALSE
    /\ kapc = "none"
    /\ rank = 1
    /\ rounds = 0
    /\ wpc = [w \in Workers |-> "socket"]
    /\ attempts = [w \in Workers |-> 0]
    /\ wsock = [w \in Workers |-> "none"]
    /\ connected = [w \in Workers |-> FALSE]
    /\ wsent = [w \in Workers |-> << >>]
    /\ rcvd = [w \in Workers |-> 0]
    /\ werr = [w \in Workers |-> 0]
    /\ wexit = [w \in Workers |-> 0]
    /\ downloaded = {}
    /\ uploaded = {}

\* ------------------------------------------------- master, main thread
\* sock = socket.socket(...); sock.bind(...); sock.listen(world_size);
\* client_list = [None] * world_size
MasterListen ==
    /\ mpc = "listen"
    /\ listening' = "open"
    /\ client_list' = [k \in 0 .. (world_size - 1) |-> None]
    /\ i' = 1
    /\ mpc' = MNext(mpc)
    /\ UNCHANGED <<phase, backlog, mconn, sent, mrcvd, err_code, mexit, launched>>
    /\ UNCHANGED <<cvars, tvars, kvars, wvars, avars>>

\* Variant: the accepted connection stored one slot too low.
MasterAcceptOffByOne ==
    /\ mpc = "accept"
    /\ IF i < world_size
       THEN /\ backlog # << >>
            /\ client_list' = [client_list EXCEPT ![i - 1] = Head(backlog)]
            /\ mconn' = [mconn EXCEPT ![Head(backlog)] = "open"]
            /\ backlog' = Tail(backlog)
            /\ i' = i + 1
            /\ mpc' = mpc
       ELSE /\ mpc' = MNext(mpc)
            /\ i' = 1
            /\ UNCHANGED <<client_list, mconn, backlog>>
    /\ UNCHANGED <<phase, listening, sent, mrcvd, err_code, mexit, launched>>
    /\ UNCHANGED <<cvars, tvars, kvars, wvars, avars>>

\* for i in range(1, world_size): client, _ = sock.accept(); client_list[i] = client
MasterAccept ==
    /\ mpc = "accept"
    /\ IF i < world_size
       THEN /\ backlog # << >>
            /\ client_list' = [client_list EXCEPT ![i] = Head(backlog)]
            /\ mconn' = [mconn EXCEPT ![Head(backlog)] = "open"]
            /\ backlog' = Tail(backlog)
            /\ i' = i + 1
            /\ mpc' = mpc
       ELSE /\ mpc' = MNext(mpc)
            /\ i' = 1
            /\ UNCHANGED <<client_list, mconn, backlog>>
    /\ UNCHANGED <<phase, listening, sent, mrcvd, err_code, mexit, launched>>
    /\ UNCHANGED <<cvars, tvars, kvars, wvars, avars>>

\* download_yaml_config, download_graph, download_model; err_code = 0
MasterDownload ==
    /\ mpc = "download"
    /\ downloaded' = downloaded \cup {0}
    /\ err_code' = 0
    /\ mpc' = MNext(mpc)
    /\ UNCHANGED <<i, phase, listening, backlog, client_list, mconn, sent, mrcvd,
                   mexit, launched>>
    /\ UNCHANGED <<cvars, tvars, kvars, wvars, uploaded>>

\* Variant: each worker answered as soon as its own ready message is read.
BarrierMasterEager ==
    /\ mpc = "barrier_master"
    /\ IF i < world_size
       THEN /\ mrcvd[client_list[i]] < Len(wsent[client_list[i]])
            /\ mrcvd' = [mrcvd EXCEPT ![client_list[i]] = @ + 1]
            /\ sent' = [sent EXCEPT ![client_list[i]] = Append(@, "go")]
            /\ i' = i + 1
            /\ UNCHANGED mpc
       ELSE /\ i' = 1
            /\ mpc' = MNext(mpc)
            /\ UNCHANGED <<mrcvd, sent>>
    /\ UNCHANGED <<phase, listening, backlog, client_list, mconn, err_code, mexit,
                   launched>>
    /\ UNCHANGED <<cvars, tvars, kvars, wvars, avars>>

\* barrier_master(client_list, world_size): wait for the ready message of
\* every worker connection, then answer each with "go".
BarrierMaster ==
    /\ mpc = "barrier_master"
    /\ IF phase = 1
       THEN IF i < world_size
            THEN /\ mrcvd[client_list[i]] < Len(wsent[client_list[i]])
                 /\ mrcvd' = [mrcvd EXCEPT ![client_list[i]] = @ + 1]
                 /\ i' = i + 1
                 /\ UNCHANGED <<phase, sent, mpc>>
            ELSE /\ phase' = 2
                 /\ i' = 1
                 /\ UNCHANGED <<mrcvd, sent, mpc>>
       ELSE IF i < world_size
            THEN /\ sent' = [sent EXCEPT ![client_list[i]] = Append(@, "go")]
                 /\ i' = i + 1
                 /\ UNCHANGED <<phase, mrcvd, mpc>>
            ELSE /\ phase' = 1
                 /\ i' = 1
                 /\ mpc' = MNext(mpc)
                 /\ UNCHANGED <<mrcvd, sent>>
    /\ UNCHANGED <<listening, backlog, client_list, mconn, err_code, mexit, launched>>
    /\ UNCHANGED <<cvars, tvars, kvars, wvars, avars>>

\* task_end = Event(); thread = Thread(target=keep_alive, ...); thread.start()
MasterStartKeepAlive ==
    /\ mpc = "ka_start"
    /\ task_end' = FALSE
    /\ kapc' = "test"
    /\ mpc' = MNext(mpc)
    /\ UNCHANGED <<i, phase, listening, backlog, client_list, mconn, sent, mrcvd,
                   err_code, mexit, launched>>
    /\ UNCHANGED <<cvars, tvars, rank, rounds, wvars, avars>>

\* try: state_q = queue.Queue(); train_task = launch_train_task(...)
\* except RuntimeError: err_code = -1
MasterLaunch ==
    /\ mpc = "launch"
    /\ \E task_ok \in BOOLEAN, env_ok \in BOOLEAN :
         LET r == LaunchOutcome(task_ok, env_ok) IN
         /\ launched' = r
         /\ IF r = "started"
            THEN /\ tpc' = "run"
                 /\ state_q' = << >>
                 /\ mpc' = MNext(mpc)
                 /\ UNCHANGED <<err_code, mexit>>
            ELSE IF Caught(r)
            THEN /\ err_code' = -1
                 /\ mpc' = AfterTry
                 /\ UNCHANGED <<tpc, state_q, mexit>>
            ELSE /\ mpc' = "crashed"
                 /\ mexit' = 1
                 /\ UNCHANGED <<tpc, state_q, err_code>>
    /\ UNCHANGED <<i, phase, listening, backlog, client_list, mconn, sent, mrcvd>>
    /\ UNCHANGED <<cvars, child, kvars, wvars, avars>>

\* train_task.join()
MasterJoin ==
    /\ mpc = "join"
    /\ tpc = "done"
    /\ mpc' = MNext(mpc)
    /\ UNCHANGED <<i, phase, listening, backlog, client_list, mconn, sent, mrcvd,
                   err_code, mexit, launched>>
    /\ UNCHANGED <<cvars, tvars, kvars, wvars, avars>>

\* err_code = state_q.get()
MasterGet ==
    /\ mpc = "get"
    /\ state_q # << >>
    /\ err_code' = Head(state_q)
    /\ state_q' = Tail(state_q)
    /\ mpc' = MNext(mpc)
    /\ UNCHANGED <<i, phase, listening, backlog, client_list, mconn, sent, mrcvd,
                   mexit, launched>>
    /\ UNCHANGED <<cvars, tpc, child, kvars, wvars, avars>>

\* task_end.set()
MasterSetEnd ==
    /\ mpc = "set_end"
    /\ task_end' = TRUE
    /\ mpc' = MNext(mpc)
    /\ UNCHANGED <<i, phase, listening, backlog, client_list, mconn, sent, mrcvd,
                   err_code, mexit, launched>>
    /\ UNCHANGED <<cvars, tvars, kapc, rank, rounds, wvars, avars>>

\* thread.join()
MasterJoinKeepAlive ==
    /\ mpc = "ka_join"
    /\ kapc = "done"
    /\ mpc' = MNext(mpc)
    /\ UNCHANGED <<i, phase, listening, backlog, client_list, mconn, sent, mrcvd,
                   err_code, mexit, launched>>
    /\ UNCHANGED <<cvars, tvars, kvars, wvars, avars>>

\* terminate_workers(client_list, world_size): send the termination token to
\* every worker connection, then close every worker connection.  Nothing
\* is delivered on a broken connection.
TerminateWorkers ==
    /\ mpc = "terminate_workers"
    /\ IF phase = 1
       THEN IF i < world_size
            THEN /\ sent' = IF dropped[client_list[i]]
                             THEN sent
                             ELSE [sent EXCEPT ![client_list[i]] = Append(@, "Done")]
                 /\ i' = i + 1
                 /\ UNCHANGED <<phase, mconn, mpc>>
            ELSE /\ phase' = 2
                 /\ i' = 1
                 /\ UNCHANGED <<sent, mconn, mpc>>
       ELSE IF i < world_size
            THEN /\ mconn' = [mconn EXCEPT ![client_list[i]] = "closed"]
                 /\ i' = i + 1
                 /\ UNCHANGED <<phase, sent, mpc>>
            ELSE /\ phase' = 1
                 /\ i' = 1
                 /\ mpc' = MNext(mpc)
                 /\ UNCHANGED <<sent, mconn>>
    /\ UNCHANGED <<listening, backlog, client_list, mrcvd, err_code, mexit, launched>>
    /\ UNCHANGED <<cvars, tvars, kvars, wvars, avars>>

\* sock.close()
MasterClose ==
    /\ mpc = "close"
    /\ listening' = "closed"
    /\ mpc' = MNext(mpc)
    /\ UNCHANGED <<i, phase, backlog, client_list, mconn, sent, mrcvd, err_code,
                   mexit, launched>>
    /\ UNCHANGED <<cvars, tvars, kvars, wvars, avars>>

\* if err_code != 0: logging.error("Task failed"); sys.exit(-1)
MasterExitCheck ==
    /\ mpc = "exit_check"
    /\ IF ExitStatus(err_code) # 0
       THEN /\ mexit' = ExitStatus(err_code)
            /\ mpc' = "exited"
       ELSE /\ mpc' = MNext(mpc)
            /\ UNCHANGED mexit
    /\ UNCHANGED <<i, phase, listening, backlog, client_list, mconn, sent, mrcvd,
                   err_code, launched>>
    /\ UNCHANGED <<cvars, tvars, kvars, wvars, avars>>

\* if gs_model_artifact_s3 and os.path.exists(save_model_path): upload_model_artifacts(...)
MasterUpload ==
    /\ mpc = "upload"
    /\ \E exists \in BOOLEAN :
         uploaded' = IF ShouldUpload(model_artifact_s3, exists)
                     THEN uploaded \cup {0} ELSE uploaded
    /\ mexit' = 0
    /\ mpc' = MNext(mpc)
    /\ UNCHANGED <<i, phase, listening, backlog, client_list, mconn, sent, mrcvd,
                   err_code, launched>>
    /\ UNCHANGED <<cvars, tvars, kvars, wvars, downloaded>>

\* ---------------------------------------------- master, training thread
\* run(launch_cmd, state_q)
TrainRun ==
    /\ tpc = "run"
    /\ \E o \in ChildOutcomes :
         /\ child' = o
         /\ state_q' = state_q \o RunPuts(o)
    /\ tpc' = "done"
    /\ UNCHANGED <<cvars, mvars, kvars, wvars, avars>>

\* -------------------------------------------- master, keep-alive thread
\* keep_alive(client_list, world_size, task_end): while the event is unset,
\* send a heartbeat to every worker connection, then sleep.  A send on a
\* broken connection fails, is logged, and the round goes on.
KeepAliveTest ==
    /\ kapc = "test"
    /\ IF task_end
       THEN /\ kapc' = "done"
            /\ UNCHANGED rank
       ELSE /\ rounds < MaxRounds
            /\ kapc' = "send"
            /\ rank' = 1
    /\ UNCHANGED <<task_end, rounds>>
    /\ UNCHANGED <<cvars, mvars, tvars, wvars, avars>>

\* Variant: a failed send ends the keep-alive thread.
KeepAliveSendAbort ==
    /\ kapc = "send"
    /\ IF rank < world_size
       THEN IF dropped[client_list[rank]]
            THEN /\ kapc' = "done"
                 /\ UNCHANGED <<sent, rank, rounds>>
            ELSE /\ sent' = [sent EXCEPT ![client_list[rank]] = Append(@, "hb")]
                 /\ rank' = rank + 1
                 /\ UNCHANGED <<kapc, rounds>>
       ELSE /\ kapc' = "test"
            /\ rounds' = rounds + 1
            /\ UNCHANGED <<sent, rank>>
    /\ UNCHANGED <<mpc, i, phase, listening, backlog, client_list, mconn, mrcvd,
                   err_code, mexit, launched>>
    /\ UNCHANGED <<cvars, tvars, task_end, wvars, avars>>

KeepAliveSend ==
    /\ kapc = "send"
    /\ IF rank < world_size
       THEN /\ sent' = IF dropped[client_list[rank]]
                        THEN sent
                        ELSE [sent EXCEPT ![client_list[rank]] = Append(@, "hb")]
            /\ rank' = rank + 1
            /\ UNCHANGED <<kapc, rounds>>
       ELSE /\ kapc' = "test"
            /\ rounds' = rounds + 1
            /\ UNCHANGED <<sent, rank>>
    /\ UNCHANGED <<mpc, i, phase, listening, backlog, client_list, mconn, mrcvd,
                   err_code, mexit, launched>>
    /\ UNCHANGED <<cvars, tvars, task_end, wvars, avars>>

\* -------------------------------------------------------------- workers
\* sock = socket.socket(socket.AF_INET, socket.SOCK_STREAM)
WorkerSocket(w) ==
    /\ wpc[w] = "socket"
    /\ wsock' = [wsock EXCEPT ![w] = "open"]
    /\ attempts' = [attempts EXCEPT ![w] = 0]
    /\ wpc' = [wpc EXCEPT ![w] = WNext(@)]
    /\ UNCHANGED <<connected, wsent, rcvd, werr, wexit>>
    /\ UNCHANGED <<cvars, mvars, tvars, kvars, avars>>

\* for _ in range(30): try: sock.connect(...); break
\*                     except: time.sleep(10)
\* The connect succeeds only against a listening master, and may fail anyway.
WorkerConnect(w) ==
    /\ wpc[w] = "connect"
    /\ \E ok \in BOOLEAN :
         IF ok /\ listening = "open"
         THEN /\ connected' = [connected EXCEPT ![w] = TRUE]
              /\ backlog' = Append(backlog, w)
              /\ attempts' = [attempts EXCEPT ![w] = 0]
              /\ wpc' = [wpc EXCEPT ![w] = WNext(@)]
         ELSE /\ attempts' = [attempts EXCEPT ![w] =
                                IF @ + 1 < MaxAttempts THEN @ + 1 ELSE 0]
              /\ wpc' = [wpc EXCEPT ![w] =
                                IF attempts[w] + 1 < MaxAttempts THEN @ ELSE WNext(@)]
              /\ UNCHANGED <<connected, backlog>>
    /\ UNCHANGED <<wsock, wsent, rcvd, werr, wexit>>
    /\ UNCHANGED <<mpc, i, phase, listening, client_list, mconn, sent, mrcvd,
                   err_code, mexit, launched>>
    /\ UNCHANGED <<cvars, tvars, kvars, avars>>

\* download_yaml_config, download_graph, download_model; err_code = 0
WorkerDownload(w) ==
    /\ wpc[w] = "download"
    /\ downloaded' = downloaded \cup {w}
    /\ werr' = [werr EXCEPT ![w] = 0]
    /\ wpc' = [wpc EXCEPT ![w] = WNext(@)]
    /\ UNCHANGED <<attempts, wsock, connected, wsent, rcvd, wexit>>
    /\ UNCHANGED <<cvars, mvars, tvars, kvars, uploaded>>

\* barrier(sock): send the ready message, then block reading the answer.
\* Sending on a socket that never connected raises; nothing catches it.
WorkerBarrier(w) ==
    /\ wpc[w] = "barrier"
    /\ IF ~connected[w]
       THEN /\ wpc' = [wpc EXCEPT ![w] = "crashed"]
            /\ wexit' = [wexit EXCEPT ![w] = 1]
            /\ UNCHANGED <<wsent, rcvd>>
       ELSE IF wsent[w] = << >>
       THEN /\ wsent' = [wsent EXCEPT ![w] = Append(@, "ready")]
            /\ UNCHANGED <<wpc, wexit, rcvd>>
       ELSE /\ rcvd[w] < Len(sent[w])
            /\ rcvd' = [rcvd EXCEPT ![w] = @ + 1]
            /\ wpc' = [wpc EXCEPT ![w] = WNext(@)]
            /\ UNCHANGED <<wsent, wexit>>
    /\ UNCHANGED <<attempts, wsock, connected, werr>>
    /\ UNCHANGED <<cvars, mvars, tvars, kvars, avars>>

\* Variant: any message, a heartbeat included, ends the wait.
WorkerWaitForExitAnyMessage(w) ==
    /\ wpc[w] = "wait_for_exit"
    /\ IF rcvd[w] < Len(sent[w])
       THEN /\ rcvd' = [rcvd EXCEPT ![w] = @ + 1]
            /\ wpc' = [wpc EXCEPT ![w] = WNext(@)]
       ELSE /\ mconn[w] = "closed" \/ MasterGone \/ dropped[w]
            /\ wpc' = [wpc EXCEPT ![w] = WNext(@)]
            /\ UNCHANGED rcvd
    /\ UNCHANGED <<attempts, wsock, connected, wsent, werr, wexit>>
    /\ UNCHANGED <<cvars, mvars, tvars, kvars, avars>>

\* wait_for_exit(sock): read until the termination token arrives or the
\* connection is closed; heartbeats are read and ignored.
WorkerWaitForExit(w) ==
    /\ wpc[w] = "wait_for_exit"
    /\ IF rcvd[w] < Len(sent[w])
       THEN /\ rcvd' = [rcvd EXCEPT ![w] = @ + 1]
            /\ wpc' = [wpc EXCEPT ![w] =
                         IF sent[w][rcvd[w] + 1] = "Done" THEN WNext(@) ELSE @]
       ELSE /\ mconn[w] = "closed" \/ MasterGone \/ dropped[w]
            /\ wpc' = [wpc EXCEPT ![w] = WNext(@)]
            /\ UNCHANGED rcvd
    /\ UNCHANGED <<attempts, wsock, connected, wsent, werr, wexit>>
    /\ UNCHANGED <<cvars, mvars, tvars, kvars, avars>>

\* sock.close()
WorkerClose(w) ==
    /\ wpc[w] = "close"
    /\ wsock' = [wsock EXCEPT ![w] = "closed"]
    /\ wpc' = [wpc EXCEPT ![w] = WNext(@)]
    /\ UNCHANGED <<attempts, connected, wsent, rcvd, werr, wexit>>
    /\ UNCHANGED <<cvars, mvars, tvars, kvars, avars>>

\* if err_code != 0: logging.error("Task failed"); sys.exit(-1)
WorkerExitCheck(w) ==
    /\ wpc[w] = "exit_check"
    /\ IF ExitStatus(werr[w]) # 0
       THEN /\ wexit' = [wexit EXCEPT ![w] = ExitStatus(werr[w])]
            /\ wpc' = [wpc EXCEPT ![w] = "exited"]
       ELSE /\ wpc' = [wpc EXCEPT ![w] = WNext(@)]
            /\ UNCHANGED wexit
    /\ UNCHANGED <<attempts, wsock, connected, wsent, rcvd, werr>>
    /\ UNCHANGED <<cvars, mvars, tvars, kvars, avars>>

\* if gs_model_artifact_s3 and os.path.exists(save_model_path): upload_model_artifacts(...)
WorkerUpload(w) ==
    /\ wpc[w] = "upload"
    /\ \E exists \in BOOLEAN :
         uploaded' = IF ShouldUpload(model_artifact_s3, exists)
                     THEN uploaded \cup {w} ELSE uploaded
    /\ wexit' = [wexit EXCEPT ![w] = 0]
    /\ wpc' = [wpc EXCEPT ![w] = WNext(@)]
    /\ UNCHANGED <<attempts, wsock, connected, wsent, rcvd, werr>>
    /\ UNCHANGED <<cvars, mvars, tvars, kvars, downloaded>>

\* ----------------------------------------------------------------- Next
Next ==
    \/ MasterListen
    \/ MasterAccept
    \/ MasterDownload
    \/ BarrierMaster
    \/ MasterStartKeepAlive
    \/ MasterLaunch
    \/ MasterJoin
    \/ MasterGet
    \/ MasterSetEnd
    \/ MasterJoinKeepAlive
    \/ TerminateWorkers
    \/ MasterClose
    \/ MasterExitCheck
    \/ MasterUpload
    \/ TrainRun
    \/ KeepAliveTest
    \/ KeepAliveSend
    \/ \E w \in Workers : WorkerSocket(w)
    \/ \E w \in Workers : WorkerConnect(w)
    \/ \E w \in Workers : WorkerDownload(w)
    \/ \E w \in Workers : WorkerBarrier(w)
    \/ \E w \in Workers : WorkerWaitForExit(w)
    \/ \E w \in Workers : WorkerClose(w)
    \/ \E w \in Workers : WorkerExitCheck(w)
    \/ \E w \in Workers : WorkerUpload(w)

Spec == Init /\ [][Next]_vars

\* ------------------------------------------------------ fair scheduling
\* The steps of the master's main thread.
MasterMain ==
    \/ MasterListen \/ MasterAccept \/ MasterDownload \/ BarrierMaster
    \/ MasterStartKeepAlive \/ MasterLaunch \/ MasterJoin \/ MasterGet
    \/ MasterSetEnd \/ MasterJoinKeepAlive \/ TerminateWorkers \/ MasterClose
    \/ MasterExitCheck \/ MasterUpload

\* The steps of the keep-alive thread.
KeepAlive == KeepAliveTest \/ KeepAliveSend

\* The steps of the process of worker w.
WorkerProc(w) ==
    /\ w \in Workers
    /\ \/ WorkerSocket(w) \/ WorkerConnect(w) \/ WorkerDownload(w)
       \/ WorkerBarrier(w) \/ WorkerWaitForExit(w) \/ WorkerClose(w)
       \/ WorkerExitCheck(w) \/ WorkerUpload(w)

\* Every thread and process that can take a step eventually takes one, and
\* the child process started by the training thread terminates.
FairSpec ==
    /\ Spec
    /\ WF_vars(MasterMain)
    /\ WF_vars(TrainRun)
    /\ WF_vars(KeepAlive)
    /\ \A w \in 1 .. (MaxWorldSize - 1) : WF_vars(WorkerProc(w))

\* ------------------------------------------------- mid-job disconnects
\* The connection of worker w breaks after the barrier and before the
\* termination broadcast (spec.md section 7, mid-job peer disconnect).
ConnectionDrop(w) ==
    /\ kapc # "none"
    /\ mpc \in {"launch", "join", "get", "set_end", "ka_join"}
    /\ mconn[w] = "open"
    /\ ~dropped[w]
    /\ Cardinality({v \in Workers : dropped[v]}) < MaxDrops
    /\ dropped' = [dropped EXCEPT ![w] = TRUE]
    /\ UNCHANGED <<world_size, model_artifact_s3>>
    /\ UNCHANGED <<mvars, tvars, kvars, wvars, avars>>

NextDrop ==
    \/ Next
    \/ \E w \in Workers : ConnectionDrop(w)

\* The protocol on a network that may break worker connections in mid-job.
SpecDrop == Init /\ [][NextDrop]_vars

\* --------------------------------------------------------------- claims
\* The termination token has been written to the connection of worker w.
TermSent(w) == \E k \in 1 .. Len(sent[w]) : sent[w][k] = "Done"

\* Number of termination tokens written to the connection of worker w.
TermCount(w) == Cardinality({k \in 1 .. Len(sent[w]) : sent[w][k] = "Done"})

\* Worker w connected, was accepted into a slot of client_list, reported
\* ready, and the master read the report and answered "go".
BarrierPassed(w) ==
    /\ connected[w]
    /\ mconn[w] # "none"
    /\ \E k \in 1 .. (world_size - 1) : client_list[k] = w
    /\ Len(wsent[w]) >= 1 /\ wsent[w][1] = "ready"
    /\ mrcvd[w] >= 1
    /\ Len(sent[w]) >= 1 /\ sent[w][1] = "go"

\* launch_train_task has been entered.
LaunchEntered == launched # "none" \/ tpc # "none"

\* The master holds the result code: read from the queue after the training
\* thread delivered it, or set to the sentinel by the exception handler.
ResultKnown ==
    \/ launched = "RuntimeError" /\ err_code = -1
    \/ /\ launched = "started"
       /\ tpc = "done"
       /\ state_q = << >>
       /\ err_code = (IF child.kind = "exit" THEN child.code ELSE -1)

\* The master has begun tearing down: a token written or a socket closed.
TeardownBegun ==
    \/ mpc = "terminate_workers"
    \/ listening = "closed"
    \/ \E w \in Workers : TermSent(w) \/ mconn[w] = "closed"

\* Worker w has read the termination token.
GotToken(w) == rcvd[w] >= 1 /\ sent[w][rcvd[w]] = "Done"

\* Worker w left the connect loop with every attempt failed.
Exhausted(w) == ~connected[w] /\ wpc[w] \notin {"socket", "connect"}

\* C1: the workload is launched only after every worker has connected and
\* barrier_master has returned; a worker that never connects or never reports
\* ready keeps the workload from ever being launched.
C1_LaunchAfterBarrier ==
    LaunchEntered => \A w \in Workers : BarrierPassed(w)

C1_Witness ==
    /\ world_size = 3
    /\ launched = "started"
    /\ client_list[1] = 2

\* C2: the termination token is never sent, and terminate_workers is never
\* running, before the master holds the workload's result code.
C2_TerminateAfterResult ==
    (mpc = "terminate_workers" \/ \E w \in Workers : TermSent(w)) => ResultKnown

C2_Witness ==
    /\ \E w \in Workers : TermSent(w)
    /\ launched = "started"
    /\ child.kind = "exit" /\ child.code = 1

\* C3: whatever exception launch_train_task raises in the master after the
\* barrier, the master ends with the result -1, the keep-alive thread
\* cancelled and joined, the token sent to every worker and its socket closed.
C3_TeardownUnconditional ==
    (MasterGone /\ launched \in {"RuntimeError", "KeyError"}) =>
        /\ err_code = -1
        /\ task_end /\ kapc = "done"
        /\ \A w \in Workers : TermSent(w)
        /\ listening = "closed"

\* C4: the master's exit classification matches the child's: exit code 0
\* gives exit status 0, any other exit code or a supervision fault gives the
\* status of sys.exit(-1).
C4_ExitClassification ==
    (MasterGone /\ child.kind # "none") =>
        IF child.kind = "exit" /\ child.code = 0
        THEN mexit = 0
        ELSE mexit = -1

C4_Witness ==
    /\ mpc = "exited"
    /\ child.kind = "exit" /\ child.code = -9
    /\ mexit = -1

\* C5: task_end is set only once the result is known; no token is sent and no
\* socket is closed before the keep-alive thread has seen task_end and
\* stopped; no heartbeat follows the termination token on any connection.
C5_KeepAliveJoinedBeforeTeardown ==
    /\ task_end => ResultKnown
    /\ TeardownBegun => (task_end /\ kapc = "done")
    /\ \A w \in Workers : \A k \in 1 .. Len(sent[w]) :
         sent[w][k] = "Done" => \A l \in (k + 1) .. Len(sent[w]) : sent[w][l] # "hb"

C5_Witness ==
    /\ kapc = "done"
    /\ rounds >= 1
    /\ \E w \in Workers : TermSent(w) /\ \E k \in 1 .. Len(sent[w]) : sent[w][k] = "hb"

\* C6: a launch delivers exactly one result: nothing is on the queue before
\* the training thread ends, and when the master reads the queue after the
\* join exactly one item is there: 0, the child's nonzero code, or -1.
C6_ExactlyOneResult ==
    /\ Len(state_q) <= 1
    /\ tpc # "done" => state_q = << >>
    /\ mpc = "get" =>
         /\ Len(state_q) = 1
         /\ child.kind = "exit" => state_q[1] = child.code
         /\ child.kind = "fault" => state_q[1] = -1

C6_Witness ==
    /\ mpc = "get"
    /\ child.kind = "fault"
    /\ state_q = << -1 >>

\* C7: a worker whose connect attempts all failed does not go on to the
\* downloads, the barrier or the wait for exit: it is past the connect loop
\* only as a process that ended with a nonzero status.
C7_ExhaustedWorkerFailsFatally ==
    \A w \in Workers :
        Exhausted(w) => (wpc[w] \in {"exited", "crashed"} /\ wexit[w] # 0)

\* C8: when the master process has ended after passing the barrier, the
\* termination token was sent to every worker connection exactly once.
C8_OneTerminationBroadcast ==
    (MasterGone /\ LaunchEntered) => \A w \in Workers : TermCount(w) = 1

\* C9: a worker's err_code stays 0 and a worker that read the termination
\* token exits with status 0, also when the workload failed and the master
\* exits nonzero.
C9_WorkerExitIndependent ==
    /\ \A w \in Workers :
         /\ werr[w] = 0
         /\ (wpc[w] = "exited" /\ GotToken(w)) => wexit[w] = 0
    /\ (mpc = "exited" /\ child.kind = "exit" /\ child.code # 0) => mexit # 0

C9_Witness ==
    /\ mpc = "exited" /\ mexit = -1
    /\ child.kind = "exit" /\ child.code = 1
    /\ \A w \in Workers : wpc[w] = "exited" /\ GotToken(w) /\ wexit[w] = 0
    /\ world_size = 3

\* C10: a process that has ended has closed every socket it opened: the
\* master its listening socket and every accepted connection, a worker its
\* connection to the master.
C10_AllSocketsClosed ==
    /\ MasterGone =>
         /\ listening = "closed"
         /\ \A w \in Workers : mconn[w] \in {"none", "closed"}
    /\ \A w \in Workers :
         wpc[w] \in {"exited", "crashed"} => wsock[w] = "closed"


\* barrier_master has returned on the master.
BarrierMasterReturned ==
    mpc \notin {"listen", "accept", "download", "barrier_master"}

\* Worker w has returned from barrier(sock).
WorkerReleased(w) ==
    connected[w] /\ wpc[w] \notin {"socket", "connect", "download", "barrier"}

\* Number of "go" answers written to the connection of worker w.
GoCount(w) == Cardinality({k \in 1 .. Len(sent[w]) : sent[w][k] = "go"})

\* The keep-alive thread is running its loop.
KeepAliveActive == kapc \in {"test", "send"}

\* C11: when barrier_master has returned, world_size-1 distinct connections
\* have each delivered one ready message and each worker has been answered
\* with exactly one "go"; no worker leaves its barrier, and the master does
\* not leave its own, while a worker has yet to report.
C11_FullBarrier ==
    /\ BarrierMasterReturned =>
         /\ Cardinality({client_list[k] : k \in 1 .. (world_size - 1)}) = world_size - 1
         /\ \A w \in Workers :
              wsent[w] = << "ready" >> /\ mrcvd[w] = 1 /\ GoCount(w) = 1
    /\ \A w \in Workers :
         /\ GoCount(w) <= 1
         /\ WorkerReleased(w) =>
              /\ rcvd[w] >= 1 /\ sent[w][1] = "go"
              /\ \A v \in Workers : wsent[v] # << >> /\ mrcvd[v] >= 1

C11_Witness ==
    /\ world_size = 3
    /\ mpc = "ka_start"
    /\ \A w \in Workers : WorkerReleased(w)

\* C12: the keep-alive thread runs only after barrier_master has returned and
\* before the termination broadcast: while it runs every worker has its "go"
\* and none its token, and on every connection each heartbeat follows the
\* "go" and precedes the token.
C12_KeepAliveWindow ==
    /\ KeepAliveActive =>
         /\ BarrierMasterReturned
         /\ \A w \in Workers : GoCount(w) = 1 /\ ~TermSent(w)
    /\ (\E w \in Workers : TermSent(w)) => kapc = "done"
    /\ \A w \in Workers : \A k \in 1 .. Len(sent[w]) :
         sent[w][k] = "hb" =>
            /\ k > 1 /\ sent[w][1] = "go"
            /\ \A l \in 1 .. k : sent[w][l] # "Done"

C12_Witness ==
    /\ kapc = "send" /\ rank = 2
    /\ tpc = "run"
    /\ sent[client_list[1]] = << "go", "hb" >>

\* C13: the main thread and the keep-alive thread are never both in a step
\* that writes to worker connections: while the keep-alive thread runs, the
\* main thread is neither in barrier_master nor in terminate_workers.
C13_OneWriter ==
    ~(KeepAliveActive /\ mpc \in {"barrier_master", "terminate_workers"})

C13_Witness ==
    /\ kapc = "send" /\ rank < world_size
    /\ mpc = "join"
    /\ sent[client_list[rank]] = << "go" >>

\* C14: the accept loop fills slots 1..world_size-1 of client_list with
\* world_size-1 distinct connections in whatever order they arrive and leaves
\* slot 0 empty; with world_size = 1 it does not wait for a connection; no
\* step after the accept loop changes client_list.
C14_SlotsFilled ==
    /\ client_list[0] = None
    /\ (mpc = "accept" /\ world_size = 1) => ENABLED MasterAccept
    /\ mpc \notin {"listen", "accept"} =>
         /\ \A k \in 1 .. (world_size - 1) : client_list[k] \in Workers
         /\ Cardinality({client_list[k] : k \in 1 .. (world_size - 1)}) = world_size - 1
         /\ Cardinality({w \in Workers : mconn[w] # "none"}) = world_size - 1
         /\ backlog = << >>

C14_ClientListFrame ==
    /\ [] C14_SlotsFilled
    /\ [][mpc \notin {"listen", "accept"} => client_list' = client_list]_vars

C14_Witness ==
    /\ world_size = 3
    /\ mpc = "exited"
    /\ client_list[1] = 2 /\ client_list[2] = 1

\* C15: a node uploads only with args.model_artifact_s3 set and with its
\* err_code equal to 0; a node whose err_code is nonzero never reaches the
\* upload step.
C15_UploadOnlyOnSuccess ==
    /\ uploaded # {} => model_artifact_s3
    /\ 0 \in uploaded => err_code = 0
    /\ \A w \in Workers : w \in uploaded => werr[w] = 0
    /\ err_code # 0 => (mpc # "upload" /\ 0 \notin uploaded)
    /\ (mpc = "exited" /\ err_code # 0) => mexit # 0

C15_Witness ==
    /\ model_artifact_s3
    /\ mpc = "exited" /\ err_code # 0 /\ mexit = -1
    /\ 0 \notin uploaded
    /\ \E w \in Workers : w \in uploaded


\* Number of heartbeats written to the connection of worker w.
HbCount(w) == Cardinality({k \in 1 .. Len(sent[w]) : sent[w][k] = "hb"})

\* The slot of client_list that holds the connection of worker w.
SlotOf(w) == CHOOSE k \in 1 .. (world_size - 1) : client_list[k] = w

\* C16: a failed heartbeat send does not stop the keep-alive thread: it ends
\* only once task_end is set, and every worker whose connection is intact has
\* been sent one heartbeat in every finished round and in the running round
\* as soon as the loop has passed its slot.
C16_SendFailureTolerated ==
    /\ kapc = "done" => task_end
    /\ kapc # "none" =>
         \A w \in Workers :
            ~dropped[w] =>
               HbCount(w) = rounds + (IF kapc = "send" /\ SlotOf(w) < rank THEN 1 ELSE 0)

C16_Witness ==
    /\ world_size = 3
    /\ rounds = 2 /\ kapc = "test" /\ ~task_end
    /\ dropped[client_list[1]] /\ HbCount(client_list[1]) = 0
    /\ ~dropped[client_list[2]] /\ HbCount(client_list[2]) = 2


\* Worker w has returned from wait_for_exit(sock).
LeftWait(w) ==
    connected[w] /\ wpc[w] \in {"close", "exit_check", "upload", "exited"}

\* The connection of worker w is closed or broken on the master's side.
ConnectionEnded(w) == mconn[w] = "closed" \/ MasterGone \/ dropped[w]

\* C17: a worker in wait_for_exit has read its "go" and since then only
\* heartbeats; a worker is past wait_for_exit, or has closed its socket, only
\* if it read the termination token or its connection to the master ended.
C17_WaitUntilTermination ==
    \A w \in Workers :
        /\ wpc[w] = "wait_for_exit" =>
             /\ rcvd[w] >= 1 /\ sent[w][1] = "go"
             /\ \A k \in 2 .. rcvd[w] : sent[w][k] = "hb"
        /\ (LeftWait(w) \/ wsock[w] = "closed") =>
             (GotToken(w) \/ ConnectionEnded(w))

C17_Witness ==
    \E w \in Workers :
        /\ wsock[w] = "closed"
        /\ rcvd[w] = 4
        /\ sent[w] = << "go", "hb", "hb", "Done" >>


\* The job is over on every node: the keep-alive thread stopped, the token
\* sent to and read by every worker, every socket closed, every process
\* exited, with status 0 everywhere when the child exited 0.
AllFinished ==
    /\ mpc = "exited"
    /\ task_end /\ kapc = "done"
    /\ listening = "closed"
    /\ \A w \in Workers :
         /\ TermCount(w) = 1 /\ mconn[w] = "closed"
         /\ GotToken(w) /\ wsock[w] = "closed" /\ wpc[w] = "exited"
    /\ (child.kind = "exit" /\ child.code = 0) =>
         (mexit = 0 /\ \A w \in Workers : wexit[w] = 0)

\* C18: under fair scheduling the job eventually is over on every node,
\* unless a worker used up its connect attempts or launch_train_task raised
\* an exception that run_train does not catch before any child was started.
C18_EventuallyAllFinished ==
    <>(AllFinished \/ (\E w \in Workers : Exhausted(w)) \/ launched = "KeyError")

C18_Witness ==
    /\ world_size = 3
    /\ AllFinished
    /\ child.kind = "exit" /\ child.code = 0
    /\ rounds >= 1


\* C19: when launch_train_task raises RuntimeError for an unsupported task
\* type, no training thread and no child exist and the queue is empty; the
\* master does not crash, holds err_code = -1, never uploads, and when it has
\* exited the keep-alive thread was cancelled and joined, the token was sent
\* to every worker and the exit status is nonzero.
C19_UnsupportedTask ==
    launched = "RuntimeError" =>
        /\ tpc = "none" /\ child = NoChild /\ state_q = << >>
        /\ err_code = -1
        /\ mpc \notin {"crashed", "join", "get", "upload"}
        /\ 0 \notin uploaded
        /\ mpc \in {"terminate_workers", "close", "exit_check", "exited"} =>
             (task_end /\ kapc = "done")
        /\ mpc \in {"close", "exit_check", "exited"} =>
             \A w \in Workers : TermCount(w) = 1
        /\ mpc = "exited" => mexit = -1

C19_Witness ==
    /\ world_size = 3
    /\ launched = "RuntimeError"
    /\ mpc = "exited" /\ mexit = -1
    /\ rounds >= 1

\* C20: the master downloads only after every accept, a worker only after
\* its connect loop; a worker reports ready only after its downloads; so when
\* launch_train_task is entered the master and every worker that reported
\* ready have finished their downloads.
C20_DownloadsBeforeLaunch ==
    /\ 0 \in downloaded =>
         /\ mpc \notin {"listen", "accept"}
         /\ \A k \in 1 .. (world_size - 1) : client_list[k] # None
    /\ \A w \in Workers :
         /\ w \in downloaded => wpc[w] \notin {"socket", "connect"}
         /\ wsent[w] # << >> => w \in downloaded
    /\ LaunchEntered =>
         /\ 0 \in downloaded
         /\ \A w \in Workers : w \in downloaded

C20_Witness ==
    /\ world_size = 3
    /\ launched = "started"
    /\ downloaded = {0, 1, 2}


====
